---- MODULE Spec2Model ----
(***************************************************************************)
(* A model of webservices_scraping.py: the endpoint prober                 *)
(* (APICollector.test_api_endpoint), the parallel dispatcher               *)
(* (APICollector.test_apis_parallel), the repository search client         *)
(* (APICollector.search_github_apis), the exporter (save_results) and the  *)
(* orchestrator (run_collection / main).                                   *)
(*                                                                         *)
(* Python strings are sequences of one-character strings, so that lower()  *)
(* and the substring test `x in s` are computed, not assumed.  Python      *)
(* dicts are functions whose DOMAIN is the set of keys.                    *)
(***************************************************************************)
EXTENDS Integers, Sequences, FiniteSets, TLC

VARIABLES
    urls,             \* test_apis_parallel: the argument `urls`, a sequence
    max_workers,      \* test_apis_parallel: the argument `max_workers`
    tasks,            \* one entry per future of future_to_url (task i probes urls[i])
    queue,            \* the executor's FIFO work queue (task numbers)
    collected,        \* task numbers in the order as_completed yielded them
    functional_apis,  \* test_apis_parallel: the local list functional_apis
    mpc,              \* where the thread calling test_apis_parallel stands
    phase,            \* main / run_collection: the phase in progress
    outcome,          \* main: "running", "completed", "interrupted" or "error"
    failed_at,        \* the phase in which the run was interrupted or raised
    directory_apis,   \* run_collection: the local directory_apis
    github_net,       \* what the network did during search_github_apis
    github_apis,      \* run_collection: the local github_apis
    all_apis,         \* run_collection: the local all_apis
    working_apis,     \* run_collection: the local working_apis
    files             \* the files written by save_results, oldest first

pvars == <<urls, max_workers, tasks, queue, collected, functional_apis, mpc>>
rvars == <<phase, outcome, failed_at, directory_apis, github_net, github_apis,
           all_apis, working_apis, files>>
vars == <<pvars, rvars>>

----------------------------------------------------------------------------
(* Bounds of the model *)

MaxUrls == 2
MaxWorkers == 2

----------------------------------------------------------------------------
(* Strings *)

UpperLetters == <<"A","B","C","D","E","F","G","H","I","J","K","L","M",
                  "N","O","P","Q","R","S","T","U","V","W","X","Y","Z">>
LowerLetters == <<"a","b","c","d","e","f","g","h","i","j","k","l","m",
                  "n","o","p","q","r","s","t","u","v","w","x","y","z">>

\* str.lower() on one character
LowerChar(c) ==
    IF \E i \in 1..26 : UpperLetters[i] = c
    THEN LowerLetters[CHOOSE i \in 1..26 : UpperLetters[i] = c]
    ELSE c

\* str.lower()
Lower(s) == [i \in 1..Len(s) |-> LowerChar(s[i])]

\* the Python test `sub in s` on strings
Contains(sub, s) ==
    \E i \in 0..(Len(s) - Len(sub)) : SubSeq(s, i + 1, i + Len(sub)) = sub

EmptyStr == <<>>
S_json == <<"j","s","o","n">>
S_xml == <<"x","m","l">>
S_graphql == <<"g","r","a","p","h","q","l">>

----------------------------------------------------------------------------
(* Responses of the HTTP client: a status code, a case-insensitive header  *)
(* dict (keys kept lowercase) and the elapsed time.                        *)

NoHeaders == [k \in {} |-> EmptyStr]

\* headers.get(key, default)
HeaderGet(headers, key, default) ==
    IF key \in DOMAIN headers THEN headers[key] ELSE default

CT_appJSON == <<"a","p","p","/","J","S","O","N">>
CT_textXml == <<"t","e","x","t","/","x","m","l">>
CT_textHtml == <<"t","e","x","t","/","h","t","m","l">>
CT_xmlJson == <<"a","/","x","m","l","+","j","s","o","n">>
SRV_nginx == <<"n","g","i","n","x">>
CORS_any == <<"*">>

URL_graphql == <<"h","t","t","p",":","/","/","a","/","G","r","a","p","h","Q","L">>
URL_v1 == <<"h","t","t","p",":","/","/","b","/","v","1">>
URL_rest == <<"h","t","t","p",":","/","/","c","/","r","e","s","t">>

Response(status, headers, elapsed) ==
    [status_code |-> status, headers |-> headers, elapsed |-> elapsed]

\* what one call of session.head / session.get can do: return a response, or
\* raise a requests.RequestException (connection refused, timeout, ...)
Returned(r) == [kind |-> "response", response |-> r]
Raised(e) == [kind |-> "raise", error |-> e]

----------------------------------------------------------------------------
(* test_api_endpoint *)

\* line 105: "Si HEAD échoue, essayer GET"
\* (NeedsFallbackOff is the faulty variant `> 400`)
NeedsFallbackOff(status) == status > 400
NeedsFallback(status) == status >= 400

\* line 114 (IsFunctionalLoose is the faulty variant `< 500`)
IsFunctionalLoose(status) == status < 500
IsFunctional(status) == status < 400

\* line 117
RequiresAuth(status) == status = 401

\* line 118
RateLimited(status) == status = 429

\* lines 121-130: the type tag
\* (ClassifyTypeUrlFirst is the faulty variant that looks at the URL first)
ClassifyTypeUrlFirst(content_type_header, url) ==
    LET content_type == Lower(content_type_header) IN
    IF Contains(S_graphql, Lower(url)) THEN "GraphQL"
    ELSE IF Contains(S_json, content_type) THEN "REST/JSON"
    ELSE IF Contains(S_xml, content_type) THEN "REST/XML"
    ELSE "Unknown"
ClassifyType(content_type_header, url) ==
    LET content_type == Lower(content_type_header) IN
    IF Contains(S_json, content_type) THEN "REST/JSON"
    ELSE IF Contains(S_xml, content_type) THEN "REST/XML"
    ELSE IF Contains(S_graphql, Lower(url)) THEN "GraphQL"
    ELSE "Unknown"

\* lines 109-132: the Probe Result of a response
ApiInfo(url, response) ==
    [url |-> url,
     status_code |-> response.status_code,
     content_type |-> HeaderGet(response.headers, "content-type", EmptyStr),
     server |-> HeaderGet(response.headers, "server", EmptyStr),
     is_functional |-> IsFunctional(response.status_code),
     response_time |-> response.elapsed,
     supports_cors |-> "access-control-allow-origin" \in DOMAIN response.headers,
     requires_auth |-> RequiresAuth(response.status_code),
     rate_limited |-> RateLimited(response.status_code),
     type |-> ClassifyType(HeaderGet(response.headers, "content-type", EmptyStr), url)]

\* lines 134-140: the Probe Result of a transport failure
\* (ErrorInfoOptimistic is the faulty variant with 'is_functional': True)
ErrorInfoOptimistic(url, e) ==
    [url |-> url, status_code |-> 0, error |-> e, is_functional |-> TRUE]
ErrorInfo(url, e) ==
    [url |-> url, status_code |-> 0, error |-> e, is_functional |-> FALSE]

\* dict.get(key) used as a condition: a missing key gives None, which is falsy
DictGetTruthy(d, key) == key \in DOMAIN d /\ d[key] = TRUE

NoResult == [pending |-> TRUE]
NoNet == [kind |-> "none"]
NotAssigned == [kind |-> "unassigned"]
NoStatus == 0 - 1
NoResponse == Response(NoStatus, NoHeaders, 0)

\* A future of the pool and the call of test_api_endpoint it runs.
\*   pc: "new" (not submitted), "queued", "head" (session.head in flight),
\*       "get" (session.get in flight), "done" (the call returned)
\*   result: what the call returned
\*   n_head, n_get: how many times session.head / session.get were called
\*   head_status: the status the HEAD check reported (NoStatus: none yet, or it raised)
\*   last: the last response obtained (NoResponse: none)
\*   raised: a requests.RequestException was raised and caught at line 134
\*   (n_head .. raised are the history of the call, kept to state the properties;
\*   the code holds no such fields)
NewTask(url) ==
    [url |-> url, pc |-> "new", result |-> NoResult,
     n_head |-> 0, n_get |-> 0, head_status |-> NoStatus, last |-> NoResponse,
     raised |-> FALSE]

\* line 102 returns or raises (o is what session.head did)
AfterHead(t, o) ==
    IF o.kind = "raise"
    THEN [t EXCEPT !.pc = "done", !.result = ErrorInfo(t.url, o.error),
                   !.n_head = @ + 1, !.raised = TRUE]
    ELSE IF NeedsFallback(o.response.status_code)
    THEN [t EXCEPT !.pc = "get", !.n_head = @ + 1,
                   !.head_status = o.response.status_code,
                   !.last = o.response]
    ELSE [t EXCEPT !.pc = "done", !.result = ApiInfo(t.url, o.response),
                   !.n_head = @ + 1,
                   !.head_status = o.response.status_code,
                   !.last = o.response]

\* line 106 returns or raises (o is what session.get did)
AfterGet(t, o) ==
    IF o.kind = "raise"
    THEN [t EXCEPT !.pc = "done", !.result = ErrorInfo(t.url, o.error),
                   !.n_get = @ + 1, !.raised = TRUE]
    ELSE [t EXCEPT !.pc = "done", !.result = ApiInfo(t.url, o.response),
                   !.n_get = @ + 1,
                   !.last = o.response]

----------------------------------------------------------------------------
(* What the network may answer *)

ErrorKinds == {<<"t","i","m","e","o","u","t">>, <<"r","e","f","u","s","e","d">>}

\* a few answers, for the runs of the pool
PoolOutcomes ==
    { Returned(Response(200, ("content-type" :> CT_appJSON), 1)),
      Returned(Response(401, ("server" :> SRV_nginx), 1)),
      Raised(<<"t","i","m","e","o","u","t">>) }

PoolUrls == {URL_graphql, URL_v1}

\* many answers, for the runs of a single probe
ProbeStatuses == {200, 399, 400, 401, 403, 429, 500}
ProbeHeaders ==
    { ct @@ srv @@ cors :
        ct \in {NoHeaders} \cup
               {("content-type" :> c) : c \in {CT_appJSON, CT_textXml, CT_textHtml, CT_xmlJson}},
        srv \in {NoHeaders, ("server" :> SRV_nginx)},
        cors \in {NoHeaders, ("access-control-allow-origin" :> CORS_any)} }
ProbeOutcomes ==
    { Returned(Response(s, h, 1)) : s \in ProbeStatuses, h \in ProbeHeaders }
    \cup { Raised(e) : e \in ErrorKinds }

ProbeUrls == {URL_graphql, URL_v1, URL_rest}

----------------------------------------------------------------------------
(* test_apis_parallel *)

TaskIds == 1..Len(urls)

\* the probes a worker thread is running
\* (InFlightLeaky is the faulty variant where a probe that raised keeps its worker)
InFlightLeaky == {i \in TaskIds : tasks[i].pc \in {"head", "get"} \/ tasks[i].raised}
InFlight == {i \in TaskIds : tasks[i].pc \in {"head", "get"}}

\* ThreadPoolExecutor(max_workers): a queued task starts only on a free worker
\* (WorkerFreeOffByOne is the faulty variant `<=`)
WorkerFreeOffByOne == Cardinality(InFlight) <= max_workers
WorkerFree == Cardinality(InFlight) < max_workers

\* as_completed: a finished future that was not yielded yet
\* (YieldableAgain is the faulty variant that forgets what was yielded)
YieldableAgain(i) == tasks[i].pc = "done"
Yieldable(i) == tasks[i].pc = "done" /\ \A k \in 1..Len(collected) : collected[k] # i

\* line 216 (KeepResultAlways is the faulty variant without the test)
KeepResultAlways(result) == TRUE
KeepResult(result) == DictGetTruthy(result, "is_functional")

\* the for loop of line 214 is over: as_completed yielded every future
LoopOver == Len(collected) = Len(urls)

\* main has not been started: the call of test_apis_parallel is looked at alone
RunNotStarted ==
    /\ phase = "START"
    /\ outcome = "running"
    /\ failed_at = "none"
    /\ directory_apis = <<>>
    /\ github_net = NoNet
    /\ github_apis = NotAssigned
    /\ all_apis = <<>>
    /\ working_apis = <<>>
    /\ files = <<>>

InitCall(U, N, W) ==
    /\ urls \in UNION {[1..n -> U] : n \in N}
    /\ max_workers \in W
    /\ tasks = [i \in 1..Len(urls) |-> NewTask(urls[i])]
    /\ queue = <<>>
    /\ collected = <<>>
    /\ functional_apis = <<>>
    /\ mpc = "submit"
    /\ RunNotStarted

\* lines 208-211: executor.submit for the next url
Submit ==
    /\ mpc = "submit"
    /\ \E i \in TaskIds :
        /\ tasks[i].pc = "new"
        /\ \A j \in 1..(i - 1) : tasks[j].pc # "new"
        /\ tasks' = [tasks EXCEPT ![i].pc = "queued"]
        /\ queue' = Append(queue, i)
    /\ UNCHANGED <<urls, max_workers, collected, functional_apis, mpc, rvars>>

\* line 214: every url is submitted, the loop over as_completed begins
StartCollecting ==
    /\ mpc = "submit"
    /\ \A i \in TaskIds : tasks[i].pc # "new"
    /\ mpc' = "collect"
    /\ UNCHANGED <<urls, max_workers, tasks, queue, collected, functional_apis, rvars>>

\* a free worker takes the oldest queued task and calls session.head (line 102)
WorkerStart ==
    /\ queue # <<>>
    /\ WorkerFree
    /\ tasks' = [tasks EXCEPT ![Head(queue)].pc = "head"]
    /\ queue' = Tail(queue)
    /\ UNCHANGED <<urls, max_workers, collected, functional_apis, mpc, rvars>>

\* session.head returns or raises; the call goes on to line 106 or returns
HeadReturnsOf(i, outcomes) ==
    /\ i \in TaskIds
    /\ tasks[i].pc = "head"
    /\ \E o \in outcomes : tasks' = [tasks EXCEPT ![i] = AfterHead(@, o)]
    /\ UNCHANGED <<urls, max_workers, queue, collected, functional_apis, mpc, rvars>>

HeadReturns(outcomes) == \E i \in TaskIds : HeadReturnsOf(i, outcomes)

\* session.get returns or raises; the call returns
GetReturnsOf(i, outcomes) ==
    /\ i \in TaskIds
    /\ tasks[i].pc = "get"
    /\ \E o \in outcomes : tasks' = [tasks EXCEPT ![i] = AfterGet(@, o)]
    /\ UNCHANGED <<urls, max_workers, queue, collected, functional_apis, mpc, rvars>>

GetReturns(outcomes) == \E i \in TaskIds : GetReturnsOf(i, outcomes)

\* lines 214-221: one turn of the loop over as_completed
Collect ==
    /\ mpc = "collect"
    /\ \E i \in TaskIds :
        /\ Yieldable(i)
        /\ collected' = Append(collected, i)
        /\ functional_apis' =
             IF KeepResult(tasks[i].result)
             THEN Append(functional_apis, tasks[i].result)
             ELSE functional_apis
    /\ UNCHANGED <<urls, max_workers, tasks, queue, mpc, rvars>>

\* line 223, after the with block has shut the pool down
Return ==
    /\ mpc = "collect"
    /\ LoopOver
    /\ mpc' = "returned"
    /\ UNCHANGED <<urls, max_workers, tasks, queue, collected, functional_apis, rvars>>

Init == InitCall(PoolUrls, 0..MaxUrls, 1..MaxWorkers)

Next ==
    \/ Submit
    \/ StartCollecting
    \/ WorkerStart
    \/ HeadReturns(PoolOutcomes)
    \/ GetReturns(PoolOutcomes)
    \/ Collect
    \/ Return

Spec == Init /\ [][Next]_vars

\* Every network call eventually returns or raises (the timeout of lines 102 and
\* 106), a free worker takes queued work, and the calling thread keeps running.
Fairness ==
    /\ WF_vars(Submit) /\ WF_vars(StartCollecting) /\ WF_vars(WorkerStart)
    /\ \A i \in 1..MaxUrls : WF_vars(HeadReturnsOf(i, PoolOutcomes))
    /\ \A i \in 1..MaxUrls : WF_vars(GetReturnsOf(i, PoolOutcomes))
    /\ WF_vars(Collect) /\ WF_vars(Return)

FairSpec == Spec /\ Fairness

\* One call of test_apis_parallel on a single url with one worker, the network
\* answering anything of ProbeOutcomes.
InitProbe == InitCall(ProbeUrls, {1}, {1})

NextProbe ==
    \/ Submit
    \/ StartCollecting
    \/ WorkerStart
    \/ HeadReturns(ProbeOutcomes)
    \/ GetReturns(ProbeOutcomes)
    \/ Collect
    \/ Return

SpecProbe == InitProbe /\ [][NextProbe]_vars

----------------------------------------------------------------------------
(* Helpers on lists *)

Min(a, b) == IF a < b THEN a ELSE b

Reverse(seq) == [k \in 1..Len(seq) |-> seq[Len(seq) + 1 - k]]

Elements(seq) == {seq[k] : k \in 1..Len(seq)}

\* the elements of seq, each once, in the order of their first occurrence
Dedupe(seq) ==
    LET firsts == SelectSeq([k \in 1..Len(seq) |-> k],
                            LAMBDA k : \A j \in 1..(k - 1) : seq[j] # seq[k])
    IN  [k \in 1..Len(firsts) |-> seq[firsts[k]]]

\* list(set(seq)): the elements of seq, each once, in an order the caller cannot
\* choose (rev picks one of two orders)
ListOfSet(seq, rev) == IF rev THEN Reverse(Dedupe(seq)) ELSE Dedupe(seq)

DigitChars == <<"0","1","2","3","4","5","6","7","8","9">>

\* str(n) for a natural number n
RECURSIVE Decimal(_)
Decimal(n) ==
    IF n < 10 THEN <<DigitChars[n + 1]>>
    ELSE Decimal(n \div 10) \o <<DigitChars[(n % 10) + 1]>>

----------------------------------------------------------------------------
(* is_api_url and collect_from_directories *)

ApiIndicators ==
    { <<"a","p","i">>, <<"r","e","s","t">>, <<"g","r","a","p","h","q","l">>,
      <<"w","e","b","h","o","o","k">>,
      <<"e","n","d","p","o","i","n","t">>,
      <<"/","v","1","/">>, <<"/","v","2","/">>, <<"/","v","3","/">>,
      <<".","j","s","o","n">>, <<".","x","m","l">> }

\* lines 88-96
IsApiUrl(url) == \E indicator \in ApiIndicators : Contains(indicator, Lower(url))

\* the links of the model's pages: site i serves an API, one page is no API
ApiLink(i) ==
    <<"h","t","t","p",":","/","/","h">> \o Decimal(i)
        \o (IF i % 3 = 0 THEN <<"/","G","r","a","p","h","Q","L">> ELSE <<"/","a","p","i">>)
AboutLink == <<"h","t","t","p",":","/","/","h","0","/","a","b","o","u","t">>

\* lines 182-200, given the links extract_links_from_html found on the pages that
\* could be fetched
CollectFromDirectories(links) ==
    ListOfSet(SelectSeq(links, IsApiUrl), FALSE)

\* line 264: "Limiter pour l'exemple"
ProbeCap == 100

\* line 202: the default of max_workers, which run_collection leaves as it is
DefaultMaxWorkers == 10

\* what the directory pages may list
DirectoryLinks ==
    { <<>>,
      <<ApiLink(1), AboutLink, ApiLink(2), ApiLink(1)>>,
      [i \in 1..ProbeCap |-> ApiLink(i)] }

----------------------------------------------------------------------------
(* search_github_apis *)

MaxRepos == 1

EmptyList == [kind |-> "list", items |-> <<>>]
PyNone == [kind |-> "None"]

\* what the fetch of one readme can do: raise a RequestException, answer another
\* status than 200, answer 200 with a body that decodes (the regex matches found
\* in it are given), or answer 200 with a body that does not decode
ReadmeOutcomes ==
    { [kind |-> "raise"],
      [kind |-> "response", status_code |-> 404],
      [kind |-> "response", status_code |-> 200, decodes |-> TRUE,
       matches |-> <<ApiLink(2), ApiLink(3), ApiLink(2)>>],
      [kind |-> "response", status_code |-> 200, decodes |-> TRUE,
       matches |-> <<ApiLink(ProbeCap + 2)>>],
      [kind |-> "response", status_code |-> 200, decodes |-> FALSE] }

\* what the network can do during one call of search_github_apis: the search
\* itself raises or answers with a status; a 200 lists the repositories, whose
\* readmes are then fetched one after the other
SearchNets ==
    { [search |-> [kind |-> "raise"], readmes |-> <<>>],
      [search |-> [kind |-> "response", status_code |-> 403], readmes |-> <<>>] }
    \cup
    { [search |-> [kind |-> "response", status_code |-> 200], readmes |-> rs] :
        rs \in UNION {[1..n -> ReadmeOutcomes] : n \in 0..MaxRepos} }

\* lines 158-176: the loop over the repositories, from repository k on
RECURSIVE ReadmeLoop(_, _, _)
ReadmeLoop(readmes, k, github_apis_acc) ==
    IF k > Len(readmes)
    THEN [kind |-> "list", items |-> ListOfSet(github_apis_acc, FALSE)]
    ELSE IF readmes[k].kind = "raise"
    THEN EmptyList                                     \* lines 178-180
    ELSE IF readmes[k].status_code # 200
    THEN ReadmeLoop(readmes, k + 1, github_apis_acc)
    ELSE IF ~readmes[k].decodes
    THEN [kind |-> "raise"]                            \* line 167 raises, uncaught
    ELSE ReadmeLoop(readmes, k + 1, github_apis_acc \o readmes[k].matches)

\* lines 142-180: what the call returns, or that it raises
SearchGithubApis(net) ==
    IF net.search.kind = "raise" THEN EmptyList        \* lines 178-180
    ELSE IF net.search.status_code = 200 THEN ReadmeLoop(net.readmes, 1, <<>>)
    ELSE PyNone                                        \* no return statement is reached

----------------------------------------------------------------------------
(* save_results *)

\* the keys of a Probe Result in insertion order (lines 109-119, 124-130, 135-140)
Keys(api) ==
    IF "error" \in DOMAIN api
    THEN <<"url", "status_code", "error", "is_functional">>
    ELSE <<"url", "status_code", "content_type", "server", "is_functional",
           "response_time", "supports_cors", "requires_auth", "rate_limited", "type">>

S_True == <<"T","r","u","e">>
S_False == <<"F","a","l","s","e">>

TypeTagText(tag) ==
    CASE tag = "REST/JSON" -> <<"R","E","S","T","/","J","S","O","N">>
      [] tag = "REST/XML" -> <<"R","E","S","T","/","X","M","L">>
      [] tag = "GraphQL" -> <<"G","r","a","p","h","Q","L">>
      [] OTHER -> <<"U","n","k","n","o","w","n">>

\* the text csv writes for one field of a record
CsvCell(api, key) ==
    CASE key \in {"status_code", "response_time"} -> Decimal(api[key])
      [] key \in {"is_functional", "supports_cors", "requires_auth", "rate_limited"} ->
            IF api[key] THEN S_True ELSE S_False
      [] key = "type" -> TypeTagText(api[key])
      [] OTHER -> api[key]

\* DictWriter: a missing key is written as the empty string
CsvRow(api, fieldnames) ==
    [k \in 1..Len(fieldnames) |->
        IF fieldnames[k] \in DOMAIN api THEN CsvCell(api, fieldnames[k]) ELSE EmptyStr]

\* DictWriter raises ValueError on a row with a key that is not a fieldname
CsvRejects(api, fieldnames) == ~(DOMAIN api \subseteq Elements(fieldnames))

\* lines 229-232
SaveJson(apis) == [format |-> "json", complete |-> TRUE, content |-> apis]

\* lines 234-241: the header and the rows written before a row is rejected
SaveCsv(apis) ==
    IF apis = <<>>
    THEN [format |-> "csv", complete |-> TRUE, content |-> <<>>]
    ELSE LET fieldnames == Keys(apis[1])
             bad == {k \in 1..Len(apis) : CsvRejects(apis[k], fieldnames)}
             n == IF bad = {} THEN Len(apis)
                  ELSE (CHOOSE k \in bad : \A j \in bad : k <= j) - 1
         IN  [format |-> "csv", complete |-> bad = {},
              content |-> <<fieldnames>> \o [k \in 1..n |-> CsvRow(apis[k], fieldnames)]]

\* the file an interrupt leaves when it comes after open() and before the writes
Truncated(format) == [format |-> format, complete |-> FALSE, content |-> <<>>]

----------------------------------------------------------------------------
(* The network during the probes of run_collection: the answer to a call is a  *)
(* function of the world w, the URL and the method.                            *)

MaxWorld == 2

RunOutcomes ==
    << Returned(Response(200, ("content-type" :> CT_appJSON), 1)),
       Returned(Response(401, ("server" :> SRV_nginx), 2)),
       Raised(<<"t","i","m","e","o","u","t">>),
       Returned(Response(429, ("content-type" :> CT_textXml), 3)),
       Returned(Response(200, ("content-type" :> CT_textHtml)
                              @@ ("access-control-allow-origin" :> CORS_any), 12)),
       Returned(Response(500, NoHeaders, 1)) >>

DigitValue(c) ==
    IF \E d \in 1..10 : DigitChars[d] = c
    THEN (CHOOSE d \in 1..10 : DigitChars[d] = c) - 1
    ELSE 0

RECURSIVE UrlKey(_)
UrlKey(url) ==
    IF url = <<>> THEN 0 ELSE DigitValue(Head(url)) + UrlKey(Tail(url))

\* in world 0 nothing is reachable; in world w > 0 the answer is read from
\* RunOutcomes at a place the URL decides, the GET one place after the w-th HEAD
Answer(w, url, method) ==
    IF w = 0 THEN Raised(<<"r","e","f","u","s","e","d">>)
    ELSE RunOutcomes[((UrlKey(url) * w + (IF method = "GET" THEN w - 1 ELSE 0))
                        % Len(RunOutcomes)) + 1]

\* lines 98-140: one whole call of test_api_endpoint, the HEAD check answered by
\* head_outcome and the GET, if it is issued, by get_outcome
TestApiEndpoint(url, head_outcome, get_outcome) ==
    LET after_head == AfterHead([NewTask(url) EXCEPT !.pc = "head"], head_outcome)
    IN  IF after_head.pc = "get" THEN AfterGet(after_head, get_outcome) ELSE after_head

----------------------------------------------------------------------------
(* run_collection and main *)

\* line 264: all_apis[:100] (HandedAll is the faulty variant without the slice)
HandedAll(apis) == apis
Handed(apis) == SubSeq(apis, 1, Min(Len(apis), ProbeCap))

\* line 267
StillWorking(api) == DictGetTruthy(api, "is_functional")

InitRun ==
    /\ urls = <<>>
    /\ max_workers = DefaultMaxWorkers
    /\ tasks = <<>>
    /\ queue = <<>>
    /\ collected = <<>>
    /\ functional_apis = <<>>
    /\ mpc = "idle"
    /\ RunNotStarted

\* lines 280-283 and 248: main builds the collector and calls run_collection
Begin ==
    /\ phase = "START"
    /\ outcome = "running"
    /\ phase' = "COLLECT_DIRECTORIES"
    /\ UNCHANGED <<pvars, outcome, failed_at, directory_apis, github_net, github_apis,
                   all_apis, working_apis, files>>

\* lines 251-252
CollectDirectories ==
    /\ phase = "COLLECT_DIRECTORIES"
    /\ outcome = "running"
    /\ \E links \in DirectoryLinks : directory_apis' = CollectFromDirectories(links)
    /\ phase' = "SEARCH_REPOS"
    /\ UNCHANGED <<pvars, outcome, failed_at, github_net, github_apis, all_apis,
                   working_apis, files>>

\* lines 255-256; an exception of search_github_apis ends the run at line 302
SearchRepos ==
    /\ phase = "SEARCH_REPOS"
    /\ outcome = "running"
    /\ \E net \in SearchNets :
        /\ github_net' = net
        /\ IF SearchGithubApis(net).kind = "raise"
           THEN /\ phase' = "FAILED"
                /\ outcome' = "error"
                /\ failed_at' = "SEARCH_REPOS"
                /\ UNCHANGED github_apis
           ELSE /\ github_apis' = SearchGithubApis(net)
                /\ phase' = "MERGE_DEDUPE"
                /\ UNCHANGED <<outcome, failed_at>>
    /\ UNCHANGED <<pvars, directory_apis, all_apis, working_apis, files>>

\* lines 259-260; list + None raises TypeError, which ends the run at line 302
MergeDedupe ==
    /\ phase = "MERGE_DEDUPE"
    /\ outcome = "running"
    /\ IF github_apis.kind = "None"
       THEN /\ phase' = "FAILED"
            /\ outcome' = "error"
            /\ failed_at' = "MERGE_DEDUPE"
            /\ UNCHANGED all_apis
       ELSE /\ \E rev \in BOOLEAN :
                all_apis' = ListOfSet(directory_apis \o github_apis.items, rev)
            /\ phase' = "PROBE"
            /\ UNCHANGED <<outcome, failed_at>>
    /\ UNCHANGED <<pvars, directory_apis, github_net, github_apis, working_apis, files>>

\* lines 263-264: the whole call test_apis_parallel(all_apis[:100]), in a world w,
\* the probes completing in submission order or in the reverse order
Probe ==
    /\ phase = "PROBE"
    /\ outcome = "running"
    /\ \E w \in 0..MaxWorld, rev \in BOOLEAN :
        LET handed == Handed(all_apis)
            n == Len(handed)
            finished == [i \in 1..n |->
                TestApiEndpoint(handed[i], Answer(w, handed[i], "HEAD"),
                                Answer(w, handed[i], "GET"))]
            order == IF rev THEN [k \in 1..n |-> n + 1 - k] ELSE [k \in 1..n |-> k]
            kept == SelectSeq(order, LAMBDA i : KeepResult(finished[i].result))
        IN  /\ urls' = handed
            /\ tasks' = finished
            /\ collected' = order
            /\ functional_apis' = [k \in 1..Len(kept) |-> finished[kept[k]].result]
            /\ mpc' = "returned"
    /\ phase' = "FILTER_FUNCTIONAL"
    /\ UNCHANGED <<max_workers, queue, outcome, failed_at, directory_apis, github_net,
                   github_apis, all_apis, working_apis, files>>

\* lines 267-269
FilterFunctional ==
    /\ phase = "FILTER_FUNCTIONAL"
    /\ outcome = "running"
    /\ working_apis' = SelectSeq(functional_apis, StillWorking)
    /\ phase' = "EXPORT_JSON"
    /\ UNCHANGED <<pvars, outcome, failed_at, directory_apis, github_net, github_apis,
                   all_apis, files>>

\* line 272
ExportJson ==
    /\ phase = "EXPORT_JSON"
    /\ outcome = "running"
    /\ files' = Append(files, SaveJson(working_apis))
    /\ phase' = "EXPORT_CSV"
    /\ UNCHANGED <<pvars, outcome, failed_at, directory_apis, github_net, github_apis,
                   all_apis, working_apis>>

\* lines 273-275; a ValueError of the csv writer ends the run at line 302
ExportCsv ==
    /\ phase = "EXPORT_CSV"
    /\ outcome = "running"
    /\ files' = Append(files, SaveCsv(working_apis))
    /\ IF SaveCsv(working_apis).complete
       THEN /\ phase' = "DONE"
            /\ UNCHANGED <<outcome, failed_at>>
       ELSE /\ phase' = "FAILED"
            /\ outcome' = "error"
            /\ failed_at' = "EXPORT_CSV"
    /\ UNCHANGED <<pvars, directory_apis, github_net, github_apis, all_apis, working_apis>>

\* lines 285-298: run_collection returned, main prints the summary
PrintSummary ==
    /\ phase = "DONE"
    /\ outcome = "running"
    /\ outcome' = "completed"
    /\ UNCHANGED <<pvars, phase, failed_at, directory_apis, github_net, github_apis,
                   all_apis, working_apis, files>>

\* lines 300-301: KeyboardInterrupt anywhere inside the try block; one that comes
\* while save_results holds its file open leaves that file behind, empty
Interrupt ==
    /\ phase \notin {"START", "FAILED"}
    /\ outcome = "running"
    /\ phase' = "FAILED"
    /\ outcome' = "interrupted"
    /\ failed_at' = phase
    /\ IF phase = "EXPORT_JSON" THEN files' \in {files, Append(files, Truncated("json"))}
       ELSE IF phase = "EXPORT_CSV" THEN files' \in {files, Append(files, Truncated("csv"))}
       ELSE files' = files
    /\ UNCHANGED <<pvars, directory_apis, github_net, github_apis, all_apis, working_apis>>

NextRun ==
    \/ Begin
    \/ CollectDirectories
    \/ SearchRepos
    \/ MergeDedupe
    \/ Probe
    \/ FilterFunctional
    \/ ExportJson
    \/ ExportCsv
    \/ PrintSummary
    \/ Interrupt

SpecRun == InitRun /\ [][NextRun]_vars

----------------------------------------------------------------------------
(* Properties of test_api_endpoint and test_apis_parallel *)

Done(i) == tasks[i].pc = "done"

HasDuplicates(seq) == \E a, b \in 1..Len(seq) : a # b /\ seq[a] = seq[b]

\* the results of the functional probes, in the order as_completed yielded them
FunctionalInYieldOrder ==
    LET f == SelectSeq(collected, LAMBDA i : tasks[i].result.is_functional)
    IN  [k \in 1..Len(f) |-> tasks[f[k]].result]

\* C1 as stated: test_apis_parallel probes every submitted URL exactly once and
\* returns N Probe Results, one per URL, whatever the completion order.
C1_ReturnsOneResultPerUrl ==
    mpc = "returned" =>
        /\ \A i \in TaskIds : tasks[i].n_head = 1
        /\ Len(functional_apis) = Len(urls)

\* C1 amended: every submitted URL is probed exactly once and its result is taken
\* from as_completed exactly once, whatever the completion order; the list
\* returned holds exactly the functional ones among the N results, each once, so
\* its length is the number of functional results, at most N.
C1_EachProbedOnceFunctionalReturned ==
    /\ \A i \in TaskIds : tasks[i].n_head <= 1
    /\ ~HasDuplicates(collected)
    /\ \A k \in 1..Len(collected) : Done(collected[k])
    /\ functional_apis = FunctionalInYieldOrder
    /\ mpc = "returned" =>
        /\ \A i \in TaskIds : tasks[i].n_head = 1 /\ Done(i)
        /\ {collected[k] : k \in 1..Len(collected)} = TaskIds
        /\ Len(functional_apis)
             = Cardinality({i \in TaskIds : tasks[i].result.is_functional})
        /\ Len(functional_apis) <= Len(urls)

\* two probes returned out of submission order, one functional and one not
C1_Witness ==
    /\ mpc = "returned"
    /\ collected = <<2, 1>>
    /\ tasks[1].result.is_functional
    /\ ~tasks[2].result.is_functional

\* C3: a transport failure on the HEAD check or on the fallback GET ends the call
\* with a Probe Result of status 0, not functional, with an error description;
\* every Probe Result with an error field is not functional and has status 0.
C3_TransportFailureContained ==
    \A i \in TaskIds :
        /\ tasks[i].raised =>
            /\ Done(i)
            /\ tasks[i].result.status_code = 0
            /\ tasks[i].result.is_functional = FALSE
            /\ "error" \in DOMAIN tasks[i].result
            /\ tasks[i].result.error \in ErrorKinds
        /\ (Done(i) /\ "error" \in DOMAIN tasks[i].result) =>
            /\ tasks[i].raised
            /\ tasks[i].result.is_functional = FALSE
            /\ tasks[i].result.status_code = 0

\* the fallback GET raised after the HEAD check reported an error status
C3_Witness ==
    \E i \in TaskIds :
        /\ tasks[i].raised
        /\ tasks[i].n_get = 1
        /\ tasks[i].head_status >= 400
        /\ mpc = "returned"

\* C5: at every moment at most max_workers probes are in flight.
C5_AtMostWInFlight == Cardinality(InFlight) <= max_workers

\* every worker is busy and a submitted probe waits in the queue
C5_Witness ==
    /\ Cardinality(InFlight) = max_workers
    /\ queue # <<>>

\* C6: no probe's transport failure cancels or blocks another probe: every
\* submitted probe eventually completes, the call eventually returns, and it
\* returns only after every submitted probe has completed.
C6_EveryProbeCompletes ==
    /\ [](mpc = "returned" => \A i \in TaskIds : Done(i))
    /\ <>(mpc = "returned" /\ \A i \in TaskIds : Done(i))

\* the first probe failed on its transport and the second, which waited for the
\* only worker, still returned a functional result
C6_Witness ==
    /\ mpc = "returned"
    /\ max_workers = 1
    /\ Len(urls) = 2
    /\ tasks[1].raised
    /\ tasks[2].result.is_functional

\* C7: the HEAD check comes first; the GET is issued iff the HEAD check reported
\* a status >= 400; the Probe Result is built from the last response obtained
\* and is functional iff that response's status is below 400.
C7_FallbackIffHeadError ==
    \A i \in TaskIds :
        LET t == tasks[i] IN
        /\ t.n_head <= 1 /\ t.n_get <= 1
        /\ t.n_get = 1 => t.n_head = 1
        /\ t.pc \in {"get", "done"} => t.n_head = 1
        /\ t.pc = "get" => t.head_status >= 400 /\ t.n_get = 0
        /\ t.pc = "done" => (t.n_get = 1 <=> t.head_status >= 400)
        /\ (t.pc = "done" /\ ~t.raised) =>
            /\ t.result.url = t.url
            /\ t.result.status_code = t.last.status_code
            /\ t.result.response_time = t.last.elapsed
            /\ t.result.content_type = HeaderGet(t.last.headers, "content-type", <<>>)
            /\ t.result.server = HeaderGet(t.last.headers, "server", <<>>)
            /\ t.result.supports_cors
                 = ("access-control-allow-origin" \in DOMAIN t.last.headers)
        /\ (t.pc = "done" /\ t.last # NoResponse) =>
            (t.result.is_functional <=> t.last.status_code < 400)

\* the HEAD check reported exactly 400 and the GET then answered 200
C7_Witness ==
    \E i \in TaskIds :
        /\ tasks[i].pc = "done"
        /\ tasks[i].head_status = 400
        /\ tasks[i].n_get = 1
        /\ tasks[i].result.status_code = 200
        /\ tasks[i].result.is_functional

\* C9: the type tag follows a fixed precedence: REST/JSON if the declared content
\* type contains "json", else REST/XML if it contains "xml", else GraphQL if the
\* URL contains "graphql" (any case), else Unknown; exactly one tag is assigned.
C9_TypePrecedence ==
    \A i \in TaskIds :
        (Done(i) /\ ~tasks[i].raised) =>
            LET ct == Lower(HeaderGet(tasks[i].last.headers, "content-type", <<>>))
                json == Contains(<<"j","s","o","n">>, ct)
                xml == Contains(<<"x","m","l">>, ct)
                gql == Contains(<<"g","r","a","p","h","q","l">>, Lower(tasks[i].url))
                type == tasks[i].result.type
            IN  /\ type \in {"REST/JSON", "REST/XML", "GraphQL", "Unknown"}
                /\ json => type = "REST/JSON"
                /\ (~json /\ xml) => type = "REST/XML"
                /\ (~json /\ ~xml /\ gql) => type = "GraphQL"
                /\ (~json /\ ~xml /\ ~gql) => type = "Unknown"

\* a GraphQL URL answered with a JSON content type in capitals
C9_Witness ==
    \E i \in TaskIds :
        /\ Done(i)
        /\ tasks[i].url = URL_graphql
        /\ tasks[i].last.headers = ("content-type" :> CT_appJSON)
        /\ tasks[i].result.type = "REST/JSON"

----------------------------------------------------------------------------
(* Properties of search_github_apis, run_collection and main *)

\* the search answered another status than 200, or a call that was made raised a
\* RequestException (the search, or a readme fetch the loop came to)
SearchFailed(net) ==
    \/ net.search.kind = "raise"
    \/ net.search.kind = "response" /\ net.search.status_code # 200
    \/ /\ net.search.kind = "response" /\ net.search.status_code = 200
       /\ \E k \in 1..Len(net.readmes) :
            /\ net.readmes[k].kind = "raise"
            /\ \A j \in 1..(k - 1) :
                 net.readmes[j].status_code = 200 => net.readmes[j].decodes

\* C2 as stated: on a search status other than 200 or on any transport error
\* search_github_apis does not raise and returns an empty collection, so the
\* merge step of run_collection can combine it with the directory candidates.
C2_SearchFailureGivesEmptyList ==
    (github_net # NoNet /\ SearchFailed(github_net)) =>
        /\ ~(outcome = "error" /\ failed_at = "SEARCH_REPOS")
        /\ github_apis = EmptyList
        /\ ~(outcome = "error" /\ failed_at = "MERGE_DEDUPE")

PhaseOrder ==
    <<"START", "COLLECT_DIRECTORIES", "SEARCH_REPOS", "MERGE_DEDUPE", "PROBE",
      "FILTER_FUNCTIONAL", "EXPORT_JSON", "EXPORT_CSV", "DONE">>

PhaseIndex(p) == CHOOSE k \in 1..Len(PhaseOrder) : PhaseOrder[k] = p

\* the probes were handed their candidates
Probed ==
    \/ phase \in {"FILTER_FUNCTIONAL", "EXPORT_JSON", "EXPORT_CSV", "DONE"}
    \/ phase = "FAILED"
         /\ failed_at \in {"FILTER_FUNCTIONAL", "EXPORT_JSON", "EXPORT_CSV", "DONE"}

\* C4: the phases come strictly in the order COLLECT_DIRECTORIES, SEARCH_REPOS,
\* MERGE_DEDUPE, PROBE, FILTER_FUNCTIONAL, EXPORT_JSON, EXPORT_CSV, DONE, none
\* skipped or entered twice, with at most 100 candidates handed to PROBE; an
\* interrupt or an uncaught exception in any phase leads directly to the logged
\* failure, after which no phase runs and no file is written.
C4_PhasesInOrderCappedFailureTerminal ==
    /\ [][ /\ phase' # phase =>
                \/ /\ phase \notin {"FAILED", "DONE"}
                   /\ phase' = PhaseOrder[PhaseIndex(phase) + 1]
                   /\ outcome' = "running"
                \/ /\ phase # "FAILED"
                   /\ phase' = "FAILED"
                   /\ outcome' \in {"interrupted", "error"}
                   /\ failed_at' = phase
           /\ (outcome = "running" /\ outcome' \in {"interrupted", "error"}) =>
                phase' = "FAILED"
           /\ phase = "FAILED" => UNCHANGED vars
           /\ files' # files =>
                /\ phase \in {"EXPORT_JSON", "EXPORT_CSV"}
                /\ Len(files') = Len(files) + 1
         ]_vars
    /\ [](phase = "FAILED" <=> outcome \in {"interrupted", "error"})
    /\ [](Probed =>
            /\ Len(urls) <= ProbeCap
            /\ Len(urls) = Len(tasks)
            /\ urls = SubSeq(all_apis, 1, Len(urls))
            /\ (Len(all_apis) <= ProbeCap => urls = all_apis))

\* a completed run that collected more than 100 candidates and probed 100
C4_Witness ==
    /\ phase = "DONE"
    /\ outcome = "completed"
    /\ Len(all_apis) > ProbeCap
    /\ Len(urls) = ProbeCap
    /\ Len(files) = 2

\* the lines of an exported file that carry a set requires_auth or rate_limited
FlaggedLines(file) ==
    IF file.format = "json"
    THEN {k \in 1..Len(file.content) :
            \/ DictGetTruthy(file.content[k], "requires_auth")
            \/ DictGetTruthy(file.content[k], "rate_limited")}
    ELSE {k \in 2..Len(file.content) :
            \E c \in 1..Len(file.content[1]) :
                /\ file.content[1][c] \in {"requires_auth", "rate_limited"}
                /\ file.content[k][c] # <<"F","a","l","s","e">>}

FullFields ==
    {"url", "status_code", "content_type", "server", "is_functional", "response_time",
     "supports_cors", "requires_auth", "rate_limited", "type"}

\* C10: every record test_apis_parallel returns, hence every record handed to
\* save_results, is functional, has a status below 400, no error field and the
\* same ten fields; so the CSV header taken from the first record covers every
\* row, and the filter of run_collection removes nothing.
C10_ReturnedRecordsUniform ==
    /\ \A k \in 1..Len(functional_apis) :
        /\ functional_apis[k].is_functional = TRUE
        /\ functional_apis[k].status_code < 400
        /\ functional_apis[k].status_code > 0
        /\ "error" \notin DOMAIN functional_apis[k]
        /\ DOMAIN functional_apis[k] = FullFields
    /\ (Probed /\ phase # "FILTER_FUNCTIONAL" /\ failed_at # "FILTER_FUNCTIONAL") =>
        working_apis = functional_apis
    /\ ~(outcome = "error" /\ failed_at = "EXPORT_CSV")
    /\ \A f \in 1..Len(files) :
        (files[f].format = "csv" /\ files[f].complete /\ working_apis # <<>>) =>
            /\ Len(files[f].content) = Len(working_apis) + 1
            /\ Elements(files[f].content[1]) = FullFields
            /\ \A k \in 1..Len(working_apis) :
                /\ DOMAIN working_apis[k] \subseteq Elements(files[f].content[1])
                /\ Len(files[f].content[k + 1]) = Len(files[f].content[1])

\* a completed run: some probes failed, one met a 401, two or more were exported
C10_Witness ==
    /\ phase = "DONE"
    /\ \E i \in TaskIds : tasks[i].raised
    /\ \E i \in TaskIds : tasks[i].result.status_code = 401
    /\ Len(working_apis) >= 2
    /\ Len(files) = 2
    /\ files[2].format = "csv"
    /\ Len(files[2].content) = Len(working_apis) + 1

====
